---- MODULE Spec2Model ----
(***************************************************************************)
(* Model of parMaster/mcache: an in-memory key/value cache with per-key   *)
(* TTL.  src/main.go holds two engine versions: version 1 (Set returns a  *)
(* bool, Cleanup copies the live entries into a fresh map, WithSize) and  *)
(* version 2 (Set returns an error, Cleanup deletes in place, DelPrefix). *)
(* Every method body runs between c.Lock() and c.Unlock(), so one locked  *)
(* section is one atomic action; Del is two actions (Has, then the locked *)
(* delete).  time.Now() is the variable now; it advances between locked    *)
(* sections (Tick), and one locked section reads one clock value.          *)
(*                                                                         *)
(* Spec         any caller, any method, any order                          *)
(* SpecDelRace  Del with Cleanup and Clear between its two sections        *)
(* SpecSetGet   goroutines that each Set and then Get a key of their own   *)
(* SpecSweeper  the goroutine of WithCleanup, scheduled fairly             *)
(* SpecLock     the sections step by step over the RWMutex                 *)
(* SpecSameKey  goroutines that Set and then Get one common key            *)
(* SpecSetThenGet  one Set-then-Get with the other callers in between      *)
(* SpecStall    goroutines waiting for the mutex, scheduled fairly         *)
(* SpecOptions  NewCache of version 1 applying an option list              *)
(* SpecTwin     a version 1 and a version 2 cache given the same calls     *)
(* SpecNegativeTTL  a cache whose Sets all have a negative ttl             *)
(* SpecDelPrefix  DelPrefix with the store before the call kept in alt     *)
(* SpecEarlyClock  a clock that starts before the zero time.Time           *)
(***************************************************************************)
EXTENDS Integers, Sequences, FiniteSets, TLC

VARIABLES
  ver,          \* engine version of src/main.go this cache was built by
  initialSize,  \* Cache.initialSize (version 1)
  data,         \* Cache.data: map from key to CacheItem
  now,          \* the clock read by time.Now()
  pc,           \* per thread: the key of a Del between its Has and its delete
  written,      \* history: per key, the value of its most recent successful Set
  reports,      \* history: ErrExpired results per key since its last successful Set
  last,         \* the call that returned last, with its arguments and results
  alt,          \* the store of the other run that a scenario compares the cache with
  job,          \* per goroutine of the Set-then-Get workload: its position and results
  sweeper,      \* the goroutine started by WithCleanup: its position and wake-up time
  mutex,        \* Cache.RWMutex: the goroutine holding it for writing, those holding it for reading
  sect,         \* per goroutine: the locked section it is inside of
  opts          \* the options that NewCache has still to apply

vars == <<ver, initialSize, data, now, pc, written, reports, last, alt, job, sweeper, mutex, sect, opts>>

\* the variables that only the specifications of particular scenarios change
aux == <<alt, job, sweeper, mutex, sect, opts>>

----------------------------------------------------------------------------
\* Bounds of the model
MaxTime == 3
MaxReports == 2
SizeHint == 2

\* the goroutines that may be between the two locked sections of Del
Threads == {"t1", "t2"}
Keys == { <<"a", "b">>, <<"b">> }
Prefixes == { << >>, <<"a">>, <<"a", "b">>, <<"b">>, <<"b", "a">> }
Values == {0, 1}
TTLs == {-1, 0, 1}

\* zero values: var none T, time.Time{}, nil error
none == 0
ZeroTime == 0
\* time.Now() is later than the zero time.Time
InitTime == ZeroTime + 1
\* a reading of time.Now() that is one ttl before the zero time.Time
EarlyTime == ZeroTime - 1
NoKey == << >>
\* the caller of a method that is one locked section: any goroutine
Caller == "any"
\* no goroutine
NoThread == "nobody"
\* the goroutine started by WithCleanup
Sweeper == "sweeper"
\* the zero value of sync.RWMutex
Unlocked == [w |-> NoThread, r |-> {}]
\* a goroutine outside every locked section
NoSection == [op |-> "none"]
\* a cache built without WithCleanup
NoSweeper == [at |-> "none"]
\* a goroutine that is not part of the Set-then-Get workload
NoJob == [at |-> "none"]

ErrNil == "nil"
ErrKeyNotFound == "key not found"
ErrKeyExists == "key already exists"
ErrExpired == "key expired"

\* no call has returned before the Get of the workload
NoCall == [op |-> "none", key |-> NoKey, err |-> ErrNil]
EmptyMap == << >>

\* a write that builds the map anew and so loses the entries of the other keys
PutLosingOthers(d, k, item) == [x \in {k} |-> item]

Put(d, k, item) == [x \in (DOMAIN d) \cup {k} |-> IF x = k THEN item ELSE d[x]]

Remove(d, k) == [x \in (DOMAIN d) \ {k} |-> d[x]]

----------------------------------------------------------------------------
\* expired without the IsZero test
expiredNoZeroTest(item, t) ==
  IF item.expiration < t THEN TRUE ELSE FALSE

\* expired that uses !After(now) in place of Before(now)
expiredAtOrBefore(item, t) == item.expiration # ZeroTime /\ item.expiration <= t

\* CacheItem.expired
expired(item, t) ==
  IF item.expiration # ZeroTime /\ item.expiration < t THEN TRUE ELSE FALSE

\* Set without the check of the existing entry
SetOverwrite(d, k, v, ttl, t) ==
  [data |-> Put(d, k, [value |-> v,
                       expiration |-> IF ttl > 0 THEN t + ttl ELSE ZeroTime]),
   ok |-> TRUE]

\* Set that treats an expired entry like a live one
SetNoExpiry(d, k, v, ttl, t) ==
  IF k \in DOMAIN d
  THEN [data |-> d, ok |-> FALSE]
  ELSE [data |-> Put(d, k, [value |-> v,
                            expiration |-> IF ttl > 0 THEN t + ttl ELSE ZeroTime]),
        ok |-> TRUE]

\* Set that rejects the write to a live key but refreshes its expiration
SetRefreshOnReject(d, k, v, ttl, t) ==
  IF k \in DOMAIN d /\ ~expired(d[k], t)
  THEN [data |-> Put(d, k, [value |-> d[k].value,
                            expiration |-> IF ttl > 0 THEN t + ttl ELSE ZeroTime]),
        ok |-> FALSE]
  ELSE [data |-> Put(d, k, [value |-> v,
                            expiration |-> IF ttl > 0 THEN t + ttl ELSE ZeroTime]),
        ok |-> TRUE]

\* Set that adds every ttl other than 0 to the clock
SetAddsAnyTTL(d, k, v, ttl, t) ==
  IF k \in DOMAIN d /\ ~expired(d[k], t)
  THEN [data |-> d, ok |-> FALSE]
  ELSE [data |-> Put(d, k, [value |-> v,
                            expiration |-> IF ttl # 0 THEN t + ttl ELSE ZeroTime]),
        ok |-> TRUE]

\* body of Cache.Set
SetOp(d, k, v, ttl, t) ==
  IF k \in DOMAIN d /\ ~expired(d[k], t)
  THEN [data |-> d, ok |-> FALSE]
  ELSE [data |-> Put(d, k, [value |-> v,
                            expiration |-> IF ttl > 0 THEN t + ttl ELSE ZeroTime]),
        ok |-> TRUE]

\* what Set returns: a bool in version 1, an error in version 2
SetOk(v, ok) == IF v = 1 THEN ok ELSE FALSE

SetErr(v, ok) == IF v = 1 THEN ErrNil ELSE IF ok THEN ErrNil ELSE ErrKeyExists

\* Get that reports an expired entry without deleting it
GetNoEvict(d, k, t) ==
  IF k \notin DOMAIN d
  THEN [data |-> d, val |-> none, err |-> ErrKeyNotFound]
  ELSE IF expired(d[k], t)
       THEN [data |-> d, val |-> none, err |-> ErrExpired]
       ELSE [data |-> d, val |-> d[k].value, err |-> ErrNil]

\* Get that returns the value of an entry without checking its expiration
GetIgnoreExpiry(d, k, t) ==
  IF k \notin DOMAIN d
  THEN [data |-> d, val |-> none, err |-> ErrKeyNotFound]
  ELSE [data |-> d, val |-> d[k].value, err |-> ErrNil]

\* Get that returns the stale value together with ErrExpired
GetStaleWithError(d, k, t) ==
  IF k \notin DOMAIN d
  THEN [data |-> d, val |-> none, err |-> ErrKeyNotFound]
  ELSE IF expired(d[k], t)
       THEN [data |-> Remove(d, k), val |-> d[k].value, err |-> ErrExpired]
       ELSE [data |-> d, val |-> d[k].value, err |-> ErrNil]

\* Get that clears the expiration of an expired entry in place of deleting it
GetRevive(d, k, t) ==
  IF k \notin DOMAIN d
  THEN [data |-> d, val |-> none, err |-> ErrKeyNotFound]
  ELSE IF expired(d[k], t)
       THEN [data |-> Put(d, k, [value |-> d[k].value, expiration |-> ZeroTime]),
             val |-> none, err |-> ErrExpired]
       ELSE [data |-> d, val |-> d[k].value, err |-> ErrNil]

\* Get that pushes back the expiration of the live entry it returns
GetTouch(d, k, t) ==
  IF k \notin DOMAIN d
  THEN [data |-> d, val |-> none, err |-> ErrKeyNotFound]
  ELSE IF expired(d[k], t)
       THEN [data |-> Remove(d, k), val |-> none, err |-> ErrExpired]
       ELSE [data |-> IF d[k].expiration = ZeroTime THEN d
                      ELSE Put(d, k, [value |-> d[k].value, expiration |-> t + 1]),
             val |-> d[k].value, err |-> ErrNil]

\* body of Cache.Get
GetOp(d, k, t) ==
  IF k \notin DOMAIN d
  THEN [data |-> d, val |-> none, err |-> ErrKeyNotFound]
  ELSE IF expired(d[k], t)
       THEN [data |-> Remove(d, k), val |-> none, err |-> ErrExpired]
       ELSE [data |-> d, val |-> d[k].value, err |-> ErrNil]

\* Has that reports an expired entry without deleting it
HasNoEvict(d, k, t) ==
  IF k \notin DOMAIN d
  THEN [data |-> d, ok |-> FALSE, err |-> ErrKeyNotFound]
  ELSE IF expired(d[k], t)
       THEN [data |-> d, ok |-> FALSE, err |-> ErrExpired]
       ELSE [data |-> d, ok |-> TRUE, err |-> ErrNil]

\* Has that deletes an expired entry and reports it as not found
HasExpiredAsNotFound(d, k, t) ==
  IF k \notin DOMAIN d
  THEN [data |-> d, ok |-> FALSE, err |-> ErrKeyNotFound]
  ELSE IF expired(d[k], t)
       THEN [data |-> Remove(d, k), ok |-> FALSE, err |-> ErrKeyNotFound]
       ELSE [data |-> d, ok |-> TRUE, err |-> ErrNil]

\* body of Cache.Has
HasOp(d, k, t) ==
  IF k \notin DOMAIN d
  THEN [data |-> d, ok |-> FALSE, err |-> ErrKeyNotFound]
  ELSE IF expired(d[k], t)
       THEN [data |-> Remove(d, k), ok |-> FALSE, err |-> ErrExpired]
       ELSE [data |-> d, ok |-> TRUE, err |-> ErrNil]

\* a match of p anywhere in k
Contains(k, p) ==
  \E i \in 1..(Len(k) + 1) :
    i + Len(p) - 1 <= Len(k) /\ SubSeq(k, i, i + Len(p) - 1) = p

\* strings.HasPrefix
HasPrefix(k, p) == Len(k) >= Len(p) /\ \A i \in 1..Len(p) : k[i] = p[i]

\* the match of DelPrefixAltMatch
AltMatch(k, p) == Len(k) >= Len(p) /\ SubSeq(k, 1, Len(p)) = p

\* the range loop of Cache.DelPrefix
RECURSIVE DelPrefixLoop(_, _, _, _)
DelPrefixLoop(d, todo, p, deleted) ==
  IF todo = {} THEN [data |-> d, deleted |-> deleted]
  ELSE LET k == CHOOSE x \in todo : TRUE
       IN IF HasPrefix(k, p)
          THEN DelPrefixLoop(Remove(d, k), todo \ {k}, p, deleted + 1)
          ELSE DelPrefixLoop(d, todo \ {k}, p, deleted)

\* DelPrefix that passes over the entries that are expired
DelPrefixLiveOnly(d, p) ==
  LET hit == {k \in DOMAIN d : HasPrefix(k, p) /\ ~expired(d[k], now)}
  IN [data |-> [k \in (DOMAIN d) \ hit |-> d[k]], deleted |-> Cardinality(hit)]

DelPrefixOp(d, p) == DelPrefixLoop(d, DOMAIN d, p, 0)

\* the range loop of Cache.DelPrefixAltMatch
RECURSIVE DelPrefixAltLoop(_, _, _, _)
DelPrefixAltLoop(d, todo, p, deleted) ==
  IF todo = {} THEN [data |-> d, deleted |-> deleted]
  ELSE LET k == CHOOSE x \in todo : TRUE
       IN IF AltMatch(k, p)
          THEN DelPrefixAltLoop(Remove(d, k), todo \ {k}, p, deleted + 1)
          ELSE DelPrefixAltLoop(d, todo \ {k}, p, deleted)

DelPrefixAltMatchOp(d, p) == DelPrefixAltLoop(d, DOMAIN d, p, 0)

\* a copying Cleanup that builds the new map and does not assign it to c.data
CleanupCopyNotAssigned(d, t) == d

\* Cache.Cleanup of version 1: copy the entries that are not expired
CleanupCopy(d, t) ==
  LET keep == {k \in DOMAIN d : ~expired(d[k], t)}
  IN [k \in keep |-> d[k]]

\* Cache.Cleanup of version 2: delete the expired entries in place
RECURSIVE CleanupLoop(_, _, _)
CleanupLoop(d, todo, t) ==
  IF todo = {} THEN d
  ELSE LET k == CHOOSE x \in todo : TRUE
       IN IF expired(d[k], t)
          THEN CleanupLoop(Remove(d, k), todo \ {k}, t)
          ELSE CleanupLoop(d, todo \ {k}, t)

CleanupInPlace(d, t) == CleanupLoop(d, DOMAIN d, t)

\* Cleanup with the test inverted: it keeps the expired entries
CleanupKeepExpired(v, d, t) ==
  LET keep == {k \in DOMAIN d : expired(d[k], t)}
  IN [k \in keep |-> d[k]]

\* Cache.Cleanup of either version
CleanupOp(v, d, t) == IF v = 1 THEN CleanupCopy(d, t) ELSE CleanupInPlace(d, t)

\* Clear that allocates the new map without assigning it to c.data
ClearNotAssigned(d) == d

\* Cache.Clear
ClearOp(d) == EmptyMap

----------------------------------------------------------------------------
\* the record of a call: its arguments (key or prefix, value, ttl), its results
\* (value or count, bool, error), whether the map held its key when it was
\* called, and the keys it removed from the map
Call(op, th, k, arg, ttl, val, ok, err, d) ==
  [op |-> op, thread |-> th, key |-> k, arg |-> arg, ttl |-> ttl,
   val |-> val, ok |-> ok, err |-> err,
   had |-> (k \in DOMAIN data), removed |-> (DOMAIN data) \ (DOMAIN d)]

\* NewCache, with or without WithSize
Init ==
  /\ ver \in {1, 2}
  /\ initialSize \in (IF ver = 1 THEN {0, SizeHint} ELSE {0})
  /\ data = EmptyMap
  /\ now = InitTime
  /\ pc = [t \in Threads |-> NoKey]
  /\ written = EmptyMap
  /\ reports = [k \in Keys |-> 0]
  /\ last = Call("NewCache", Caller, NoKey, none, 0, none, FALSE, ErrNil, EmptyMap)
  /\ alt = EmptyMap
  /\ job = [t \in Threads |-> NoJob]
  /\ sweeper = NoSweeper
  /\ mutex = Unlocked
  /\ sect = [t \in Threads |-> NoSection]
  /\ opts = << >>

Idle(t) == pc[t] = NoKey

Set(k, v, ttl) ==
  /\ LET r == SetOp(data, k, v, ttl, now)
     IN /\ data' = r.data
        /\ written' = IF r.ok THEN Put(written, k, v) ELSE written
        /\ reports' = IF r.ok THEN [reports EXCEPT ![k] = 0] ELSE reports
        /\ last' = Call("Set", Caller, k, v, ttl, none, SetOk(ver, r.ok), SetErr(ver, r.ok), r.data)
  /\ UNCHANGED <<aux, ver, initialSize, now, pc>>

Get(k) ==
  /\ LET r == GetOp(data, k, now)
     IN /\ data' = r.data
        /\ reports' = IF r.err = ErrExpired
                      THEN [reports EXCEPT ![k] = IF @ < MaxReports THEN @ + 1 ELSE @] ELSE reports
        /\ last' = Call("Get", Caller, k, none, 0, r.val, FALSE, r.err, r.data)
  /\ UNCHANGED <<aux, ver, initialSize, now, pc, written>>

Has(k) ==
  /\ LET r == HasOp(data, k, now)
     IN /\ data' = r.data
        /\ reports' = IF r.err = ErrExpired
                      THEN [reports EXCEPT ![k] = IF @ < MaxReports THEN @ + 1 ELSE @] ELSE reports
        /\ last' = Call("Has", Caller, k, none, 0, none, r.ok, r.err, r.data)
  /\ UNCHANGED <<aux, ver, initialSize, now, pc, written>>

\* Del up to the return of its c.Has(key)
DelHas(t, k) ==
  /\ Idle(t)
  /\ LET r == HasOp(data, k, now)
     IN /\ data' = r.data
        /\ reports' = IF r.err = ErrExpired
                      THEN [reports EXCEPT ![k] = IF @ < MaxReports THEN @ + 1 ELSE @] ELSE reports
        /\ IF r.err # ErrNil
           THEN /\ pc' = pc
                /\ last' = Call("Del", t, k, none, 0, none, FALSE, r.err, r.data)
           ELSE /\ pc' = [pc EXCEPT ![t] = k]
                /\ last' = Call("DelHas", t, k, none, 0, none, r.ok, r.err, r.data)
  /\ UNCHANGED <<aux, ver, initialSize, now, written>>

\* Del that returns nil without deleting
DelDeleteSkipped(t) ==
  /\ ~Idle(t)
  /\ data' = data
  /\ pc' = [pc EXCEPT ![t] = NoKey]
  /\ last' = Call("Del", t, pc[t], none, 0, none, FALSE, ErrNil, data')
  /\ UNCHANGED <<aux, ver, initialSize, now, written, reports>>

\* Del that reports ErrKeyNotFound when the key is gone at its delete
DelDeleteStrict(t) ==
  /\ ~Idle(t)
  /\ data' = Remove(data, pc[t])
  /\ pc' = [pc EXCEPT ![t] = NoKey]
  /\ last' = Call("Del", t, pc[t], none, 0, none, FALSE,
                  IF pc[t] \in DOMAIN data THEN ErrNil ELSE ErrKeyNotFound, data')
  /\ UNCHANGED <<aux, ver, initialSize, now, written, reports>>

\* Del from c.Lock() to return nil
DelDelete(t) ==
  /\ ~Idle(t)
  /\ data' = Remove(data, pc[t])
  /\ pc' = [pc EXCEPT ![t] = NoKey]
  /\ last' = Call("Del", t, pc[t], none, 0, none, FALSE, ErrNil, data')
  /\ UNCHANGED <<aux, ver, initialSize, now, written, reports>>

DelPrefix(p) ==
  /\ ver = 2
  /\ LET r == DelPrefixOp(data, p)
     IN /\ data' = r.data
        /\ last' = Call("DelPrefix", Caller, p, none, 0, r.deleted, FALSE, ErrNil, r.data)
  /\ UNCHANGED <<aux, ver, initialSize, now, pc, written, reports>>

DelPrefixAltMatch(p) ==
  /\ ver = 2
  /\ LET r == DelPrefixAltMatchOp(data, p)
     IN /\ data' = r.data
        /\ last' = Call("DelPrefixAltMatch", Caller, p, none, 0, r.deleted, FALSE, ErrNil, r.data)
  /\ UNCHANGED <<aux, ver, initialSize, now, pc, written, reports>>

\* Clear that also resets the size hint
ClearForgetsSize ==
  /\ data' = ClearOp(data)
  /\ initialSize' = 0
  /\ last' = Call("Clear", Caller, NoKey, none, 0, none, FALSE, ErrNil, data')
  /\ UNCHANGED <<aux, ver, now, pc, written, reports>>

Clear ==
  /\ data' = ClearOp(data)
  /\ last' = Call("Clear", Caller, NoKey, none, 0, none, FALSE, ErrNil, data')
  /\ UNCHANGED <<aux, ver, initialSize, now, pc, written, reports>>

\* Cleanup, called by any goroutine or by the goroutine of WithCleanup
Cleanup ==
  /\ data' = CleanupOp(ver, data, now)
  /\ last' = Call("Cleanup", Caller, NoKey, none, 0, none, FALSE, ErrNil, data')
  /\ UNCHANGED <<aux, ver, initialSize, now, pc, written, reports>>

\* the clock advances
\* a clock whose advance evicts what has expired
TickEvicts ==
  /\ now < MaxTime
  /\ now' = now + 1
  /\ data' = CleanupOp(ver, data, now')
  /\ last' = Call("Tick", Caller, NoKey, none, 0, none, FALSE, ErrNil, data')
  /\ UNCHANGED <<aux, ver, initialSize, pc, written, reports>>

Tick ==
  /\ now < MaxTime
  /\ now' = now + 1
  /\ last' = Call("Tick", Caller, NoKey, none, 0, none, FALSE, ErrNil, data)
  /\ UNCHANGED <<aux, ver, initialSize, data, pc, written, reports>>

Next ==
  \/ \E k \in Keys, v \in Values, ttl \in TTLs : Set(k, v, ttl)
  \/ \E k \in Keys : Get(k)
  \/ \E k \in Keys : Has(k)
  \/ \E t \in Threads, k \in Keys : DelHas(t, k)
  \/ \E t \in Threads : DelDelete(t)
  \/ \E p \in Prefixes : DelPrefix(p)
  \/ \E p \in Prefixes : DelPrefixAltMatch(p)
  \/ Clear
  \/ Cleanup
  \/ Tick

Spec == Init /\ [][Next]_vars

TypeOK ==
  /\ ver \in {1, 2}
  /\ now \in InitTime..MaxTime
  /\ DOMAIN data \subseteq Keys
  /\ \A k \in DOMAIN data : data[k].value \in Values
----------------------------------------------------------------------------
\* Del racing with Cleanup and Clear.  One Del at a time is between its
\* presence check and its delete; meanwhile other goroutines run Cleanup and
\* Clear and the clock advances.  alt follows the run in which the same Del
\* deleted the key in the locked section of its check.

\* c.Has(key) of Del; when it passes, the other run deletes the key here
RaceDelHas(t, k) ==
  /\ \A u \in Threads : Idle(u)
  /\ LET r == HasOp(data, k, now)
     IN /\ data' = r.data
        /\ IF r.err # ErrNil
           THEN /\ pc' = pc
                /\ alt' = r.data
                /\ last' = Call("Del", t, k, none, 0, none, FALSE, r.err, r.data)
           ELSE /\ pc' = [pc EXCEPT ![t] = k]
                /\ alt' = Remove(r.data, k)
                /\ last' = Call("DelHas", t, k, none, 0, none, r.ok, r.err, r.data)
  /\ UNCHANGED <<job, sweeper, mutex, sect, ver, initialSize, now, written, reports, opts>>

\* Cleanup by another goroutine while the Del is pending
RaceCleanup ==
  /\ \E t \in Threads : ~Idle(t)
  /\ data' = CleanupOp(ver, data, now)
  /\ alt' = CleanupOp(ver, alt, now)
  /\ last' = Call("Cleanup", Caller, NoKey, none, 0, none, FALSE, ErrNil, data')
  /\ UNCHANGED <<job, sweeper, mutex, sect, ver, initialSize, now, pc, written, reports, opts>>

\* Clear by another goroutine while the Del is pending
RaceClear ==
  /\ \E t \in Threads : ~Idle(t)
  /\ data' = ClearOp(data)
  /\ alt' = ClearOp(alt)
  /\ last' = Call("Clear", Caller, NoKey, none, 0, none, FALSE, ErrNil, data')
  /\ UNCHANGED <<job, sweeper, mutex, sect, ver, initialSize, now, pc, written, reports, opts>>

\* the store is filled only while no Del is pending
RaceSet ==
  /\ \A t \in Threads : Idle(t)
  /\ \E k \in Keys, v \in Values, ttl \in TTLs : Set(k, v, ttl)

NextDelRace ==
  \/ RaceSet
  \/ \E t \in Threads, k \in Keys : RaceDelHas(t, k)
  \/ RaceCleanup
  \/ RaceClear
  \/ \E t \in Threads : DelDelete(t)
  \/ Tick

SpecDelRace == Init /\ [][NextDelRace]_vars

----------------------------------------------------------------------------
\* The Set-then-Get workload: every goroutine sets a key of its own with
\* ttl 0 and then gets it, on one fresh cache, in any interleaving.

\* the keys of the goroutines: one distinct key each
KeyOf == { f \in [Threads -> Keys] : \A t, u \in Threads : f[t] = f[u] => t = u }

InitSetGet ==
  /\ ver \in {1, 2}
  /\ initialSize \in (IF ver = 1 THEN {0, SizeHint} ELSE {0})
  /\ data = EmptyMap
  /\ now = InitTime
  /\ pc = [t \in Threads |-> NoKey]
  /\ written = EmptyMap
  /\ reports = [k \in Keys |-> 0]
  /\ last = Call("NewCache", Caller, NoKey, none, 0, none, FALSE, ErrNil, EmptyMap)
  /\ alt = EmptyMap
  /\ sweeper = NoSweeper
  /\ mutex = Unlocked
  /\ sect = [t \in Threads |-> NoSection]
  /\ opts = << >>
  /\ \E f \in KeyOf, v \in [Threads -> Values] :
       job = [t \in Threads |->
                [at |-> "set", key |-> f[t], value |-> v[t], ttl |-> 0,
                 setOk |-> FALSE, setErr |-> ErrNil, got |-> none, getErr |-> ErrNil,
                 prev |-> NoCall]]

\* cache.Set(key, value, ttl) of one goroutine
WorkerSet(t) ==
  /\ job[t].at = "set"
  /\ LET r == SetOp(data, job[t].key, job[t].value, job[t].ttl, now)
     IN /\ data' = r.data
        /\ written' = IF r.ok THEN Put(written, job[t].key, job[t].value) ELSE written
        /\ reports' = IF r.ok THEN [reports EXCEPT ![job[t].key] = 0] ELSE reports
        /\ job' = [job EXCEPT ![t].at = "get",
                              ![t].setOk = SetOk(ver, r.ok),
                              ![t].setErr = SetErr(ver, r.ok)]
        /\ last' = Call("Set", t, job[t].key, job[t].value, job[t].ttl, none,
                        SetOk(ver, r.ok), SetErr(ver, r.ok), r.data)
  /\ UNCHANGED <<ver, initialSize, now, pc, alt, sweeper, mutex, sect, opts>>

\* cache.Get(key) of the same goroutine
WorkerGet(t) ==
  /\ job[t].at = "get"
  /\ LET r == GetOp(data, job[t].key, now)
     IN /\ data' = r.data
        /\ reports' = IF r.err = ErrExpired
                      THEN [reports EXCEPT ![job[t].key] = IF @ < MaxReports THEN @ + 1 ELSE @]
                      ELSE reports
        /\ job' = [job EXCEPT ![t].at = "done", ![t].got = r.val, ![t].getErr = r.err,
                              ![t].prev = [op |-> last.op, key |-> last.key, err |-> last.err]]
        /\ last' = Call("Get", t, job[t].key, none, 0, r.val, FALSE, r.err, r.data)
  /\ UNCHANGED <<ver, initialSize, now, pc, written, alt, sweeper, mutex, sect, opts>>

NextSetGet ==
  \/ \E t \in Threads : WorkerSet(t)
  \/ \E t \in Threads : WorkerGet(t)
  \/ Tick

SpecSetGet == InitSetGet /\ [][NextSetGet]_vars

\* The same workload on one key: every goroutine sets the same key, with a
\* value and a ttl of its own, and then gets it; Cleanup may run meanwhile.
InitSameKey ==
  /\ ver \in {1, 2}
  /\ initialSize \in (IF ver = 1 THEN {0, SizeHint} ELSE {0})
  /\ data = EmptyMap
  /\ now = InitTime
  /\ pc = [t \in Threads |-> NoKey]
  /\ written = EmptyMap
  /\ reports = [k \in Keys |-> 0]
  /\ last = Call("NewCache", Caller, NoKey, none, 0, none, FALSE, ErrNil, EmptyMap)
  /\ alt = EmptyMap
  /\ sweeper = NoSweeper
  /\ mutex = Unlocked
  /\ sect = [t \in Threads |-> NoSection]
  /\ opts = << >>
  /\ \E k \in Keys, v \in [Threads -> Values], l \in [Threads -> TTLs] :
       job = [t \in Threads |->
                [at |-> "set", key |-> k, value |-> v[t], ttl |-> l[t],
                 setOk |-> FALSE, setErr |-> ErrNil, got |-> none, getErr |-> ErrNil,
                 prev |-> NoCall]]

NextSameKey ==
  \/ \E t \in Threads : WorkerSet(t)
  \/ \E t \in Threads : WorkerGet(t)
  \/ Cleanup
  \/ Tick

SpecSameKey == InitSameKey /\ [][NextSameKey]_vars

\* Set followed by Get next to other callers: one goroutine sets a key and
\* then gets it, while the other goroutines call any method; the Set calls of
\* the others are those of the same key, made between the two calls.
InitSetThenGet ==
  /\ ver \in {1, 2}
  /\ initialSize = 0
  /\ data = EmptyMap
  /\ now = InitTime
  /\ pc = [t \in Threads |-> NoKey]
  /\ written = EmptyMap
  /\ reports = [k \in Keys |-> 0]
  /\ last = Call("NewCache", Caller, NoKey, none, 0, none, FALSE, ErrNil, EmptyMap)
  /\ alt = EmptyMap
  /\ sweeper = NoSweeper
  /\ mutex = Unlocked
  /\ sect = [t \in Threads |-> NoSection]
  /\ opts = << >>
  /\ \E w \in Threads, k \in Keys, v \in Values, l \in TTLs :
       job = [t \in Threads |->
                IF t = w
                THEN [at |-> "set", key |-> k, value |-> v, ttl |-> l,
                      setOk |-> FALSE, setErr |-> ErrNil, got |-> none, getErr |-> ErrNil,
                      prev |-> NoCall]
                ELSE NoJob]

\* the calls of the other goroutines, while the workload is under way
OtherCalls ==
  \/ \E t \in Threads, v \in Values, ttl \in TTLs :
       job[t] # NoJob /\ job[t].at = "get" /\ Set(job[t].key, v, ttl)
  \/ \E k \in Keys : Get(k)
  \/ \E k \in Keys : Has(k)
  \/ \E t \in Threads, k \in Keys : job[t] = NoJob /\ DelHas(t, k)
  \/ \E t \in Threads : job[t] = NoJob /\ DelDelete(t)
  \/ \E p \in Prefixes : DelPrefix(p)
  \/ \E p \in Prefixes : DelPrefixAltMatch(p)
  \/ Clear
  \/ Cleanup
  \/ Tick

NextSetThenGet ==
  \/ \E t \in Threads : job[t] # NoJob /\ WorkerSet(t)
  \/ \E t \in Threads : job[t] # NoJob /\ WorkerGet(t)
  \/ (\E t \in Threads : job[t] # NoJob /\ job[t].at # "done") /\ OtherCalls

SpecSetThenGet == InitSetThenGet /\ [][NextSetThenGet]_vars

----------------------------------------------------------------------------
\* A cache built with WithCleanup(ttl): one goroutine runs
\* for { c.Cleanup(); time.Sleep(ttl) } next to the foreground callers.

\* the intervals WithCleanup is called with
Intervals == {1, 2}

Min(a, b) == IF a < b THEN a ELSE b

InitSweeper ==
  /\ ver \in {1, 2}
  /\ initialSize = 0
  /\ data = EmptyMap
  /\ now = InitTime
  /\ pc = [t \in Threads |-> NoKey]
  /\ written = EmptyMap
  /\ reports = [k \in Keys |-> 0]
  /\ last = Call("NewCache", Caller, NoKey, none, 0, none, FALSE, ErrNil, EmptyMap)
  /\ alt = EmptyMap
  /\ job = [t \in Threads |-> NoJob]
  /\ mutex = Unlocked
  /\ sect = [t \in Threads |-> NoSection]
  /\ opts = << >>
  /\ \E i \in Intervals : sweeper = [at |-> "cleanup", ttl |-> i, until |-> InitTime]

\* c.Cleanup() of the goroutine, up to the call of time.Sleep(ttl).  The clock
\* of the model stops at MaxTime, and so does the wake-up time.
SweeperCleanup ==
  /\ sweeper.at = "cleanup"
  /\ data' = CleanupOp(ver, data, now)
  /\ sweeper' = [sweeper EXCEPT !.at = "sleep", !.until = Min(now + sweeper.ttl, MaxTime)]
  /\ last' = Call("Cleanup", "sweeper", NoKey, none, 0, none, FALSE, ErrNil, data')
  /\ UNCHANGED <<ver, initialSize, now, pc, written, reports, alt, job, mutex, sect, opts>>

\* a sweeper that returns after its first Cleanup
SweeperReturns ==
  /\ sweeper.at = "sleep"
  /\ now >= sweeper.until
  /\ sweeper' = [sweeper EXCEPT !.at = "returned"]
  /\ UNCHANGED <<ver, initialSize, data, now, pc, written, reports, last, alt, job, mutex, sect, opts>>

\* time.Sleep(ttl) returns once the interval has passed
SweeperWake ==
  /\ sweeper.at = "sleep"
  /\ now >= sweeper.until
  /\ sweeper' = [sweeper EXCEPT !.at = "cleanup"]
  /\ UNCHANGED <<ver, initialSize, data, now, pc, written, reports, last, alt, job, mutex, sect, opts>>

NextSweeper ==
  \/ SweeperCleanup
  \/ SweeperWake
  \/ \E k \in Keys, v \in Values, ttl \in TTLs : Set(k, v, ttl)
  \/ \E k \in Keys : Get(k)
  \/ Tick

\* Fair scheduling: the goroutine of the sweeper is run whenever it can take a
\* step, and the clock does not stop before MaxTime.
SpecSweeper ==
  /\ InitSweeper
  /\ [][NextSweeper]_vars
  /\ WF_vars(SweeperCleanup)
  /\ WF_vars(SweeperWake)
  /\ WF_vars(Tick)

----------------------------------------------------------------------------
\* The locked sections, step by step.  A goroutine takes c.Lock(), runs the
\* body of the method and unlocks.  The range loops of DelPrefix and of
\* Cleanup visit one key per step: DelPrefix and Cleanup of version 2 delete
\* in place, so that between two steps the store is halfway changed, and
\* Cleanup of version 1 copies into a local map that it assigns to c.data at
\* the end.  The clock runs on meanwhile.

\* shared mode of the mutex for Get and Has
LockModeSharedReads(op) == IF op \in {"Get", "Has"} THEN "r" ELSE "w"

\* shared mode of the mutex for Set and Cleanup
LockModeSharedWrites(op) == IF op \in {"Set", "Cleanup"} THEN "r" ELSE "w"

\* how the method takes the mutex: every method calls c.Lock()
LockMode(op) == "w"

\* the methods whose body is a range loop over c.data
Ranges(op) == op \in {"DelPrefix", "Cleanup"}

\* the calls a goroutine that is not inside Del can make
LockCalls ==
  {[op |-> "Set", key |-> k, arg |-> v, ttl |-> ttl] :
      k \in Keys, v \in Values, ttl \in TTLs}
  \cup {[op |-> o, key |-> k, arg |-> none, ttl |-> 0] :
          o \in {"Get", "Has", "DelHas"}, k \in Keys}
  \cup {[op |-> o, key |-> NoKey, arg |-> none, ttl |-> 0] : o \in {"Clear", "Cleanup"}}
  \cup {[op |-> "DelPrefix", key |-> p, arg |-> none, ttl |-> 0] :
          p \in IF ver = 2 THEN Prefixes ELSE {}}

\* the goroutines inside a locked section
Inside == {t \in Threads : sect[t] # NoSection}

\* c.Lock() returns (RLock for a method in shared mode)
CanLock(mode) ==
  IF mode = "w" THEN mutex = Unlocked ELSE mutex.w = NoThread

\* c.Lock() returned at the head of the method
Take(t, c) ==
  /\ CanLock(LockMode(c.op))
  /\ mutex' = IF LockMode(c.op) = "w" THEN [mutex EXCEPT !.w = t]
                                     ELSE [mutex EXCEPT !.r = @ \cup {t}]
  /\ sect' = [sect EXCEPT ![t] =
                [op |-> c.op, key |-> c.key, arg |-> c.arg, ttl |-> c.ttl,
                 seen |-> data,
                 todo |-> IF Ranges(c.op) THEN DOMAIN data ELSE {},
                 fresh |-> EmptyMap]]
  /\ UNCHANGED <<ver, initialSize, data, now, pc, written, reports, last, alt, opts>>

Enter(t, c) == Take(t, c) /\ UNCHANGED <<job, sweeper>>

\* a goroutine calls a method and gets the mutex; inside Del, after Has, the
\* only section it can enter is the delete
Lock(t) ==
  /\ sect[t] = NoSection
  /\ IF Idle(t)
     THEN \E c \in LockCalls : Enter(t, c)
     ELSE Enter(t, [op |-> "DelDelete", key |-> pc[t], arg |-> none, ttl |-> 0])

\* one iteration of for k, v := range c.data
RangeStep(t) ==
  /\ sect[t] # NoSection
  /\ sect[t].todo # {}
  /\ \E k \in sect[t].todo :
       LET c == sect[t] IN
       IF c.op = "Cleanup" /\ ver = 1
       THEN /\ data' = data
            /\ sect' = [sect EXCEPT ![t].todo = @ \ {k},
                                    ![t].fresh = IF k \in DOMAIN data /\ ~expired(data[k], now)
                                                 THEN Put(@, k, data[k]) ELSE @]
       ELSE /\ data' = IF /\ k \in DOMAIN data
                          /\ IF c.op = "Cleanup" THEN expired(data[k], now)
                                                 ELSE HasPrefix(k, c.key)
                       THEN Remove(data, k) ELSE data
            /\ sect' = [sect EXCEPT ![t].todo = @ \ {k}]
  /\ UNCHANGED <<ver, initialSize, now, pc, written, reports, last, alt, job, sweeper, mutex, opts>>

\* the rest of the body, up to and including c.Unlock()
Release(t) ==
  /\ sect[t] # NoSection
  /\ sect[t].todo = {}
  /\ LET c == sect[t]
         r == IF c.op = "Has" \/ c.op = "DelHas" THEN HasOp(data, c.key, now)
              ELSE [data |-> data, err |-> ErrNil]
     IN /\ data' = CASE c.op = "Set" -> SetOp(data, c.key, c.arg, c.ttl, now).data
                     [] c.op = "Get" -> GetOp(data, c.key, now).data
                     [] c.op \in {"Has", "DelHas"} -> r.data
                     [] c.op = "DelDelete" -> Remove(data, c.key)
                     [] c.op = "Clear" -> ClearOp(data)
                     [] c.op = "Cleanup" /\ ver = 1 -> c.fresh
                     [] OTHER -> data
        /\ pc' = CASE c.op = "DelHas" /\ r.err = ErrNil -> [pc EXCEPT ![t] = c.key]
                   [] c.op = "DelDelete" -> [pc EXCEPT ![t] = NoKey]
                   [] OTHER -> pc
  /\ mutex' = [w |-> IF mutex.w = t THEN NoThread ELSE mutex.w, r |-> mutex.r \ {t}]
  /\ sect' = [sect EXCEPT ![t] = NoSection]
  /\ UNCHANGED <<ver, initialSize, now, written, reports, last, alt, opts>>

Unlock(t) == Release(t) /\ UNCHANGED <<job, sweeper>>

NextLock ==
  \/ \E t \in Threads : Lock(t)
  \/ \E t \in Threads : RangeStep(t)
  \/ \E t \in Threads : Unlock(t)
  \/ Tick

SpecLock == Init /\ [][NextLock]_vars

----------------------------------------------------------------------------
\* Callers blocked in c.Lock().  A foreground goroutine calls a method and
\* waits for the mutex (job "wait"), runs the locked section (job "in") and
\* returns; inside Del it waits a second time, after its Has has unlocked.
\* The goroutine of WithCleanup takes the same mutex for its Cleanup and
\* sleeps outside of it.

Goroutines == Threads \cup {Sweeper}

\* the calls of the waiting goroutines: those of LockCalls that store the zero
\* value with a positive ttl, and those that store nothing
StallCalls ==
  {c \in LockCalls : c.op = "Set" => c.arg = none /\ c.ttl > 0}

InitStall ==
  /\ ver \in {1, 2}
  /\ initialSize = 0
  /\ data = EmptyMap
  /\ now = InitTime
  /\ pc = [t \in Threads |-> NoKey]
  /\ written = EmptyMap
  /\ reports = [k \in Keys |-> 0]
  /\ last = Call("NewCache", Caller, NoKey, none, 0, none, FALSE, ErrNil, EmptyMap)
  /\ alt = EmptyMap
  /\ job = [t \in Threads |-> NoJob]
  /\ \E i \in {x \in Intervals : \A y \in Intervals : x <= y} :
       sweeper = [at |-> "cleanup", ttl |-> i, until |-> InitTime]
  /\ mutex = Unlocked
  /\ sect = [g \in Goroutines |-> NoSection]
  /\ opts = << >>

\* a goroutine calls a method of the cache
StallCall(t) ==
  /\ job[t] = NoJob
  /\ job' = [job EXCEPT ![t] = [at |-> "wait"]]
  /\ UNCHANGED <<ver, initialSize, data, now, pc, written, reports, last, alt, sweeper, mutex, sect, opts>>

\* c.Lock() returns to the waiting goroutine
StallLock(t) ==
  /\ job[t] = [at |-> "wait"]
  /\ IF Idle(t)
     THEN \E c \in StallCalls : Take(t, c)
     ELSE Take(t, [op |-> "DelDelete", key |-> pc[t], arg |-> none, ttl |-> 0])
  /\ job' = [job EXCEPT ![t] = [at |-> "in"]]
  /\ UNCHANGED sweeper

\* a method that returns on its error path without c.Unlock()
ReturnLocked(t) ==
  /\ job[t] = [at |-> "in"]
  /\ sect[t].todo = {}
  /\ IF sect[t].op \in {"Get", "Has", "DelHas"} /\ HasOp(data, sect[t].key, now).err # ErrNil
     THEN /\ data' = HasOp(data, sect[t].key, now).data
          /\ sect' = [sect EXCEPT ![t] = NoSection]
          /\ UNCHANGED <<ver, initialSize, now, pc, written, reports, last, alt, opts, mutex>>
     ELSE Release(t)
  /\ job' = [job EXCEPT ![t] = IF pc'[t] # NoKey THEN [at |-> "wait"] ELSE NoJob]
  /\ UNCHANGED sweeper

\* the section ends and the method returns; Del goes on to its second c.Lock()
StallUnlock(t) ==
  /\ job[t] = [at |-> "in"]
  /\ Release(t)
  /\ job' = [job EXCEPT ![t] = IF pc'[t] # NoKey THEN [at |-> "wait"] ELSE NoJob]
  /\ UNCHANGED sweeper

\* c.Lock() of the Cleanup that the goroutine of WithCleanup calls
SweeperLock ==
  /\ sweeper.at = "cleanup"
  /\ sect[Sweeper] = NoSection
  /\ Enter(Sweeper, [op |-> "Cleanup", key |-> NoKey, arg |-> none, ttl |-> 0])

\* the Cleanup returns and the goroutine calls time.Sleep(ttl)
SweeperUnlock ==
  /\ sect[Sweeper] # NoSection
  /\ Release(Sweeper)
  /\ sweeper' = [sweeper EXCEPT !.at = "sleep", !.until = Min(now + sweeper.ttl, MaxTime)]
  /\ UNCHANGED job

NextStall ==
  \/ \E t \in Threads : StallCall(t)
  \/ \E t \in Threads : StallLock(t)
  \/ \E g \in Goroutines : RangeStep(g)
  \/ \E t \in Threads : StallUnlock(t)
  \/ SweeperLock
  \/ SweeperUnlock
  \/ SweeperWake
  \/ Tick

\* Fair scheduling: a goroutine that can run does run; a goroutine waiting
\* in c.Lock() gets the mutex when it is free again and again (sync.Mutex
\* hands the mutex to a waiter that has waited long); the clock does not stop
\* before MaxTime.
SpecStall ==
  /\ InitStall
  /\ [][NextStall]_vars
  /\ \A g \in Goroutines : WF_vars(RangeStep(g))
  /\ \A t \in Threads : WF_vars(StallUnlock(t)) /\ SF_vars(StallLock(t))
  /\ SF_vars(SweeperLock)
  /\ WF_vars(SweeperUnlock)
  /\ WF_vars(SweeperWake)
  /\ WF_vars(Tick)

----------------------------------------------------------------------------
\* NewCache of version 1 with an option list: the options are applied in
\* order by the constructing goroutine, then the cache is returned and the
\* calling goroutines use it.  WithCleanup starts the sweeper at once.

OptionLists ==
  {<< >>, <<"WithCleanup">>, <<"WithSize">>,
   <<"WithCleanup", "WithSize">>, <<"WithSize", "WithCleanup">>}

InitOptions ==
  /\ ver = 1
  /\ initialSize = 0
  /\ data = EmptyMap
  /\ now = InitTime
  /\ pc = [t \in Threads |-> NoKey]
  /\ written = EmptyMap
  /\ reports = [k \in Keys |-> 0]
  /\ last = Call("NewCache", Caller, NoKey, none, 0, none, FALSE, ErrNil, EmptyMap)
  /\ alt = EmptyMap
  /\ job = [t \in Threads |-> NoJob]
  /\ sweeper = NoSweeper
  /\ mutex = Unlocked
  /\ sect = [g \in Goroutines |-> NoSection]
  /\ opts \in OptionLists

\* option(c) with WithCleanup(ttl): go func() { for { c.Cleanup(); ... } }()
WithCleanup(ttl) ==
  /\ sweeper' = [at |-> "cleanup", ttl |-> ttl, until |-> now]
  /\ UNCHANGED <<initialSize, data>>

\* option(c) with WithSize(size): both fields are assigned, no c.Lock()
WithSize(size) ==
  /\ data' = EmptyMap
  /\ initialSize' = size
  /\ UNCHANGED sweeper

\* one iteration of for _, option := range options
ApplyOption ==
  /\ opts # << >>
  /\ IF Head(opts) = "WithCleanup"
     THEN \E i \in {x \in Intervals : \A y \in Intervals : x <= y} : WithCleanup(i)
     ELSE WithSize(SizeHint)
  /\ opts' = Tail(opts)
  /\ UNCHANGED <<ver, now, pc, written, reports, last, alt, job, mutex, sect>>

\* NewCache has returned: a goroutine calls a method and gets the mutex
OptionsLock(t) ==
  /\ opts = << >>
  /\ sect[t] = NoSection
  /\ IF Idle(t)
     THEN \E c \in StallCalls : Enter(t, c)
     ELSE Enter(t, [op |-> "DelDelete", key |-> pc[t], arg |-> none, ttl |-> 0])

NextOptions ==
  \/ ApplyOption
  \/ \E t \in Threads : OptionsLock(t)
  \/ \E g \in Goroutines : RangeStep(g)
  \/ \E t \in Threads : Unlock(t)
  \/ SweeperLock
  \/ SweeperUnlock
  \/ SweeperWake
  \/ Tick

SpecOptions == InitOptions /\ [][NextOptions]_vars

----------------------------------------------------------------------------
\* A cache on which every Set is called with a negative ttl.

NegativeTTLs == {ttl \in TTLs : ttl < 0}

NextNegativeTTL ==
  \/ \E k \in Keys, v \in Values, ttl \in NegativeTTLs : Set(k, v, ttl)
  \/ \E k \in Keys : Get(k)
  \/ \E k \in Keys : Has(k)
  \/ Clear
  \/ Cleanup
  \/ Tick

SpecNegativeTTL == Init /\ [][NextNegativeTTL]_vars

----------------------------------------------------------------------------
\* A version 2 cache on which DelPrefix is called among Sets and Gets; alt is
\* the store as it was when the last DelPrefix was called.

InitDelPrefix == Init /\ ver = 2

DelPrefixSeen(p) ==
  /\ LET r == DelPrefixOp(data, p)
     IN /\ data' = r.data
        /\ last' = Call("DelPrefix", Caller, p, none, 0, r.deleted, FALSE, ErrNil, r.data)
  /\ alt' = data
  /\ UNCHANGED <<ver, initialSize, now, pc, written, reports, job, sweeper, mutex, sect, opts>>

NextDelPrefix ==
  \/ \E k \in Keys, v \in Values, ttl \in TTLs : Set(k, v, ttl)
  \/ \E k \in Keys : Get(k)
  \/ \E p \in Prefixes : DelPrefixSeen(p)
  \/ Tick

SpecDelPrefix == InitDelPrefix /\ [][NextDelPrefix]_vars

----------------------------------------------------------------------------
\* A cache used while the clock reads an instant before the zero time.Time:
\* time.Now() is whatever the system clock gives.

InitEarlyClock ==
  /\ ver \in {1, 2}
  /\ initialSize = 0
  /\ data = EmptyMap
  /\ now = EarlyTime
  /\ pc = [t \in Threads |-> NoKey]
  /\ written = EmptyMap
  /\ reports = [k \in Keys |-> 0]
  /\ last = Call("NewCache", Caller, NoKey, none, 0, none, FALSE, ErrNil, EmptyMap)
  /\ alt = EmptyMap
  /\ job = [t \in Threads |-> NoJob]
  /\ sweeper = NoSweeper
  /\ mutex = Unlocked
  /\ sect = [t \in Threads |-> NoSection]
  /\ opts = << >>

NextEarlyClock ==
  \/ \E k \in Keys, v \in Values, ttl \in TTLs : Set(k, v, ttl)
  \/ \E k \in Keys : Get(k)
  \/ \E k \in Keys : Has(k)
  \/ Cleanup
  \/ Tick

SpecEarlyClock == InitEarlyClock /\ [][NextEarlyClock]_vars

----------------------------------------------------------------------------
\* The two engine versions side by side: data is the map of a version 1
\* cache, alt the map of a version 2 cache, and every call is made on both
\* with the same arguments at the same clock value.  In the record of the
\* call, ok is the result of version 1 and err the result of version 2.

InitTwin ==
  /\ ver = 1
  /\ initialSize \in {0, SizeHint}
  /\ data = EmptyMap
  /\ now = InitTime
  /\ pc = [t \in Threads |-> NoKey]
  /\ written = EmptyMap
  /\ reports = [k \in Keys |-> 0]
  /\ last = Call("NewCache", Caller, NoKey, none, 0, none, FALSE, ErrNil, EmptyMap)
  /\ alt = EmptyMap
  /\ job = [t \in Threads |-> NoJob]
  /\ sweeper = NoSweeper
  /\ mutex = Unlocked
  /\ sect = [t \in Threads |-> NoSection]
  /\ opts = << >>

TwinSet(k, v, ttl) ==
  /\ LET r1 == SetOp(data, k, v, ttl, now)
         r2 == SetOp(alt, k, v, ttl, now)
     IN /\ data' = r1.data
        /\ alt' = r2.data
        /\ written' = IF r1.ok THEN Put(written, k, v) ELSE written
        /\ last' = Call("Set", Caller, k, v, ttl, none, SetOk(1, r1.ok), SetErr(2, r2.ok), r1.data)
  /\ UNCHANGED <<ver, initialSize, now, pc, reports, job, sweeper, mutex, sect, opts>>

TwinGet(k) ==
  /\ LET r1 == GetOp(data, k, now)
         r2 == GetOp(alt, k, now)
     IN /\ data' = r1.data
        /\ alt' = r2.data
        /\ last' = Call("Get", Caller, k, none, 0, r1.val, r1.err = ErrNil, r2.err, r1.data)
  /\ UNCHANGED <<ver, initialSize, now, pc, written, reports, job, sweeper, mutex, sect, opts>>

TwinHas(k) ==
  /\ LET r1 == HasOp(data, k, now)
         r2 == HasOp(alt, k, now)
     IN /\ data' = r1.data
        /\ alt' = r2.data
        /\ last' = Call("Has", Caller, k, none, 0, none, r1.ok, r2.err, r1.data)
  /\ UNCHANGED <<ver, initialSize, now, pc, written, reports, job, sweeper, mutex, sect, opts>>

\* Del of both caches up to the return of c.Has(key)
TwinDelHas(t, k) ==
  /\ Idle(t)
  /\ LET r1 == HasOp(data, k, now)
         r2 == HasOp(alt, k, now)
     IN /\ data' = r1.data
        /\ alt' = r2.data
        /\ pc' = IF r1.err = ErrNil THEN [pc EXCEPT ![t] = k] ELSE pc
        /\ last' = Call(IF r1.err = ErrNil THEN "DelHas" ELSE "Del",
                        t, k, none, 0, none, r1.ok, r2.err, r1.data)
  /\ UNCHANGED <<ver, initialSize, now, written, reports, job, sweeper, mutex, sect, opts>>

\* Del of both caches from c.Lock() to return nil
TwinDelDelete(t) ==
  /\ ~Idle(t)
  /\ data' = Remove(data, pc[t])
  /\ alt' = Remove(alt, pc[t])
  /\ pc' = [pc EXCEPT ![t] = NoKey]
  /\ last' = Call("Del", t, pc[t], none, 0, none, TRUE, ErrNil, data')
  /\ UNCHANGED <<ver, initialSize, now, written, reports, job, sweeper, mutex, sect, opts>>

TwinClear ==
  /\ data' = ClearOp(data)
  /\ alt' = ClearOp(alt)
  /\ last' = Call("Clear", Caller, NoKey, none, 0, none, TRUE, ErrNil, data')
  /\ UNCHANGED <<ver, initialSize, now, pc, written, reports, job, sweeper, mutex, sect, opts>>

\* the copying Cleanup on the version 1 map, the deleting one on the other
TwinCleanup ==
  /\ data' = CleanupCopy(data, now)
  /\ alt' = CleanupInPlace(alt, now)
  /\ last' = Call("Cleanup", Caller, NoKey, none, 0, none, TRUE, ErrNil, data')
  /\ UNCHANGED <<ver, initialSize, now, pc, written, reports, job, sweeper, mutex, sect, opts>>

NextTwin ==
  \/ \E k \in Keys, v \in Values, ttl \in TTLs : TwinSet(k, v, ttl)
  \/ \E k \in Keys : TwinGet(k)
  \/ \E k \in Keys : TwinHas(k)
  \/ \E t \in Threads, k \in Keys : TwinDelHas(t, k)
  \/ \E t \in Threads : TwinDelDelete(t)
  \/ TwinClear
  \/ TwinCleanup
  \/ Tick

SpecTwin == InitTwin /\ [][NextTwin]_vars

----------------------------------------------------------------------------
\* Vocabulary of the properties

\* the expiration instant of the item is set and has passed at time t
Elapsed(item, t) == item.expiration # ZeroTime /\ item.expiration < t

\* d holds an entry under k that is not expired at time t
Live(d, k, t) == k \in DOMAIN d /\ ~Elapsed(d[k], t)

\* the result of a Set call: true / nil, or false / ErrKeyExists
Accepted(call) == IF ver = 1 THEN call.ok ELSE call.err = ErrNil
Rejected(call) == IF ver = 1 THEN ~call.ok ELSE call.err = ErrKeyExists

----------------------------------------------------------------------------
\* C1: no overwrite of live keys.  A Set(k, v2, ttl2) called while k holds an
\* entry that is present and not expired is rejected (false in version 1,
\* ErrKeyExists in version 2) and leaves the stored value in place, and the
\* Get(k) that follows it returns the value stored originally.
C1_NoOverwriteOfLiveKey ==
  [][ /\ (last'.op = "Set" /\ Live(data, last'.key, now))
         => /\ Rejected(last')
            /\ last'.key \in DOMAIN data'
            /\ data'[last'.key].value = data[last'.key].value
            /\ GetOp(data', last'.key, now').err = ErrNil
            /\ GetOp(data', last'.key, now').val = data[last'.key].value
      /\ (last.op = "Set" /\ Rejected(last) /\ last'.op = "Get" /\ last'.key = last.key)
         => /\ last'.err = ErrNil
            /\ last'.val = written[last.key]
            /\ last'.val = data[last.key].value
    ]_vars

\* a Set with another value was rejected on a key whose entry has a TTL
C1_Witness ==
  /\ last.op = "Set" /\ Rejected(last)
  /\ last.key \in DOMAIN data
  /\ data[last.key].expiration # ZeroTime
  /\ last.arg # data[last.key].value

\* C2: Set(k, v, ttl) succeeds exactly when k is absent or its entry is expired
\* at the call; it then stores v under k in place of any prior entry, and a
\* Get(k) that finds the entry present and not expired returns the value of the
\* most recent successful Set(k).
C2_SetSucceedsIffAbsentOrExpired ==
  [][ /\ last'.op = "Set"
         => /\ Accepted(last') <=> ~Live(data, last'.key, now)
            /\ Accepted(last') <=> ~Rejected(last')
            /\ Accepted(last')
               => /\ last'.key \in DOMAIN data'
                  /\ data'[last'.key].value = last'.arg
                  /\ written'[last'.key] = last'.arg
                  /\ Live(data', last'.key, now')
      /\ (last'.op = "Get" /\ Live(data, last'.key, now))
         => /\ last'.err = ErrNil
            /\ last'.val = written[last'.key]
    ]_vars

\* a Set succeeded on a key whose expired entry was still in the map
C2_Witness ==
  /\ last.op = "Set" /\ Accepted(last) /\ last.had
  /\ data[last.key].value = last.arg

\* C3: Get(k) classifies the key three ways.  Absent: ErrKeyNotFound, map
\* unchanged.  Present and expired: ErrExpired, and k is removed from the map.
\* Present and live: the stored value, no error, map unchanged.
C3_GetClassification ==
  [][ last'.op = "Get"
      => LET k == last'.key
         IN /\ k \notin DOMAIN data
               => last'.err = ErrKeyNotFound /\ last'.val = none /\ data' = data
            /\ (k \in DOMAIN data /\ Elapsed(data[k], now))
               => /\ last'.err = ErrExpired /\ last'.val = none
                  /\ k \notin DOMAIN data'
                  /\ \A x \in DOMAIN data \ {k} : x \in DOMAIN data' /\ data'[x] = data[x]
            /\ Live(data, k, now)
               => last'.err = ErrNil /\ last'.val = data[k].value /\ data' = data
    ]_vars

\* a Get returned ErrExpired and evicted its key
C3_Witness ==
  /\ last.op = "Get" /\ last.err = ErrExpired
  /\ last.removed = {last.key}
  /\ last.key \notin DOMAIN data
\* C4: Get never returns a stale value.  In every interleaving of Set, Get,
\* Has, Del (both of its locked sections), DelPrefix, Clear, Cleanup and clock
\* ticks, a Get(k) that returned no error returned the value written by the
\* most recent successful Set(k), and the entry it read is in the map and not
\* expired at the instant Get holds the lock.
C4_GetNeverStale ==
  /\ \A k \in DOMAIN data : k \in DOMAIN written /\ data[k].value = written[k]
  /\ (last.op = "Get" /\ last.err = ErrNil)
     => /\ last.key \in DOMAIN written
        /\ last.val = written[last.key]
        /\ last.key \in DOMAIN data
        /\ data[last.key].value = last.val
        /\ ~Elapsed(data[last.key], now)

\* a Get succeeded on an entry with a TTL while a Del of the same key was
\* between its presence check and its delete
C4_Witness ==
  /\ last.op = "Get" /\ last.err = ErrNil
  /\ data[last.key].expiration # ZeroTime
  /\ \E t \in Threads : pc[t] = last.key

\* a step that is Get(k), Has(k) or the presence check of Del(k)
IsRead(k) ==
  /\ last'.key = k
  /\ \/ last'.op \in {"Get", "Has", "DelHas"}
     \/ last'.op = "Del" /\ pc[last'.thread] = NoKey

\* C5: lazy eviction on read.  A Get or Has that returns ErrExpired removes the
\* entry; the next Get, Has or Del of that key, with no successful Set of it in
\* between, returns ErrKeyNotFound; and each stored entry is reported expired at
\* most once, whatever the interleaving of the readers.
C5_LazyEvictionOnRead ==
  [][ /\ (last'.op \in {"Get", "Has"} /\ last'.err = ErrExpired)
         => /\ last'.key \in DOMAIN data
            /\ last'.key \notin DOMAIN data'
      /\ \A k \in Keys :
           (reports[k] >= 1 /\ IsRead(k)) => last'.err = ErrKeyNotFound
      /\ \A k \in Keys : reports'[k] <= 1
    ]_vars

\* a read of a key returned ErrKeyNotFound after an earlier read had reported
\* the key expired
C5_Witness ==
  /\ last.op \in {"Get", "Has", "Del"}
  /\ last.err = ErrKeyNotFound
  /\ reports[last.key] = 1

\* C6: zero TTL never expires.  Set with ttl = 0 stores an entry without an
\* expiration, and such an entry is never treated as expired: at any later time
\* it leaves the map only by Del, DelPrefix (either matcher) or Clear, and while
\* it is there Get returns its value, Has returns true and Set is rejected.
C6_ZeroTTLNeverExpires ==
  [][ /\ (last'.op = "Set" /\ last'.ttl = 0 /\ Accepted(last'))
         => data'[last'.key].expiration = ZeroTime
      /\ \A k \in DOMAIN data :
           data[k].expiration = ZeroTime
           => /\ k \notin DOMAIN data'
                 => last'.op \in {"Del", "DelPrefix", "DelPrefixAltMatch", "Clear"}
              /\ k \in DOMAIN data' => data'[k] = data[k]
              /\ (last'.op = "Get" /\ last'.key = k)
                 => last'.err = ErrNil /\ last'.val = data[k].value
              /\ (last'.op = "Has" /\ last'.key = k)
                 => last'.err = ErrNil /\ last'.ok
              /\ (last'.op = "Set" /\ last'.key = k) => Rejected(last')
    ]_vars

\* at the last instant of the clock a Get returned the value of an entry that
\* has no expiration
C6_Witness ==
  /\ last.op = "Get" /\ last.err = ErrNil
  /\ now = MaxTime
  /\ data[last.key].expiration = ZeroTime
  /\ last.val = data[last.key].value

\* C7: Cleanup removes exactly the entries that are expired when it runs; every
\* entry without expiration and every entry whose expiration is in the future
\* stays under the same key with the same value and the same expiration.
C7_CleanupSweep ==
  [][ last'.op = "Cleanup"
      => /\ DOMAIN data' = {k \in DOMAIN data : ~Elapsed(data[k], now)}
         /\ \A k \in DOMAIN data :
              (data[k].expiration = ZeroTime \/ data[k].expiration > now)
              => k \in DOMAIN data' /\ data'[k] = data[k]
         /\ \A k \in DOMAIN data' : data'[k] = data[k]
    ]_vars

\* a Cleanup removed an expired entry and kept one that expires later
C7_Witness ==
  /\ last.op = "Cleanup"
  /\ last.removed # {}
  /\ \E k \in DOMAIN data : data[k].expiration > now

\* p is a leading substring of k
IsLeading(p, k) == \E n \in 0..Len(k) : SubSeq(k, 1, n) = p

\* C8: DelPrefix(p) removes exactly the keys that have p as a leading
\* substring, returns the number of keys it removed, leaves every other entry
\* as it was (so its value stays retrievable), and a DelPrefix(p) repeated
\* immediately returns 0.
C8_DelPrefixCountAndScope ==
  [][ /\ last'.op = "DelPrefix"
         => /\ DOMAIN data' = {k \in DOMAIN data : ~IsLeading(last'.key, k)}
            /\ \A k \in DOMAIN data' :
                 /\ data'[k] = data[k]
                 /\ Live(data, k, now)
                    => GetOp(data', k, now').val = data[k].value
                       /\ GetOp(data', k, now').err = ErrNil
            /\ last'.val = Cardinality((DOMAIN data) \ (DOMAIN data'))
            /\ last'.err = ErrNil
            /\ DelPrefixOp(data', last'.key).deleted = 0
      /\ (last.op = "DelPrefix" /\ last'.op = "DelPrefix" /\ last'.key = last.key)
         => last'.val = 0 /\ data' = data
    ]_vars

\* a DelPrefix with a prefix that is not empty removed one key and left
\* another one
C8_Witness ==
  /\ last.op = "DelPrefix"
  /\ last.key # << >>
  /\ last.val = 1
  /\ data # EmptyMap

\* C9: Del(k) with no operation between its two locked sections is strict.
\* Absent k: ErrKeyNotFound and the map is unchanged.  Present but expired:
\* ErrExpired, the check evicting the entry.  Live: k is removed, no error, and
\* the Has(k) that follows returns ErrKeyNotFound.
C9_DelStrict ==
  [][ /\ (last'.op \in {"Del", "DelHas"} /\ pc[last'.thread] = NoKey)
         => LET k == last'.key
            IN /\ k \notin DOMAIN data
                  => last'.op = "Del" /\ last'.err = ErrKeyNotFound /\ data' = data
               /\ (k \in DOMAIN data /\ Elapsed(data[k], now))
                  => /\ last'.op = "Del" /\ last'.err = ErrExpired
                     /\ k \notin DOMAIN data'
                     /\ \A x \in DOMAIN data \ {k} :
                          x \in DOMAIN data' /\ data'[x] = data[x]
               /\ Live(data, k, now)
                  => last'.op = "DelHas" /\ data' = data /\ pc'[last'.thread] = k
      /\ (last.op = "DelHas" /\ last'.op = "Del" /\ last'.thread = last.thread)
         => LET k == last.key
            IN /\ last'.key = k /\ last'.err = ErrNil
               /\ k \in DOMAIN data /\ k \notin DOMAIN data'
               /\ \A x \in DOMAIN data \ {k} :
                    x \in DOMAIN data' /\ data'[x] = data[x]
               /\ HasOp(data', k, now').err = ErrKeyNotFound
      /\ (last.op = "Del" /\ last.err = ErrNil /\ last'.op = "Has" /\ last'.key = last.key)
         => last'.err = ErrKeyNotFound /\ ~last'.ok
    ]_vars

\* a Del returned no error and its delete removed the key
C9_Witness ==
  /\ last.op = "Del" /\ last.err = ErrNil
  /\ last.removed = {last.key}
  /\ \A t \in Threads : pc[t] = NoKey

\* C10: Has classifies like Get.  For every map, key and time Has(k) returns
\* (true, nil) exactly when Get(k) returns no error, returns false with the
\* error Get(k) returns otherwise, and changes the map as Get(k) does: k is
\* evicted, and only when it is expired.
C10_HasClassifiesLikeGet ==
  [][ /\ last'.op = "Has"
         => LET g == GetOp(data, last'.key, now)
            IN /\ last'.err = g.err
               /\ last'.ok <=> g.err = ErrNil
               /\ data' = g.data
               /\ data' # data
                  => /\ Elapsed(data[last'.key], now)
                     /\ DOMAIN data' = (DOMAIN data) \ {last'.key}
      /\ last'.op = "Get"
         => LET h == HasOp(data, last'.key, now)
            IN /\ last'.err = h.err
               /\ h.ok <=> last'.err = ErrNil
               /\ data' = h.data
    ]_vars

\* a Has returned ErrExpired and evicted its key
C10_Witness ==
  /\ last.op = "Has" /\ last.err = ErrExpired /\ ~last.ok
  /\ last.removed = {last.key}

\* C11: Clear empties the store and returns no error.  After a Clear, as long
\* as no Set has been called, the store stays empty, every Get and Has of any
\* key fails with ErrKeyNotFound (never ErrExpired, whatever the cleared
\* entries were), and a Set of any key succeeds.
C11_ClearEmptiesStore ==
  [][ /\ last'.op = "Clear" => data' = EmptyMap /\ last'.err = ErrNil
      /\ (data = EmptyMap /\ last'.op # "Set") => data' = EmptyMap
      /\ (data = EmptyMap /\ last'.op \in {"Get", "Has"})
         => last'.err = ErrKeyNotFound /\ ~last'.ok /\ last'.val = none
      /\ (data = EmptyMap /\ last'.op = "Set") => Accepted(last')
    ]_vars

\* a Clear removed every key of the model, at an instant at which an entry
\* with a TTL can have expired
C11_Witness ==
  /\ last.op = "Clear"
  /\ last.removed = Keys
  /\ data = EmptyMap
  /\ now > InitTime + 1

\* C12: Clear is idempotent.  A Clear of an empty cache returns no error and
\* leaves it empty, and a Clear that follows a Clear changes neither the
\* (empty) store nor the size hint and returns no error too.
C12_ClearIdempotent ==
  [][ last'.op = "Clear"
      => /\ last'.err = ErrNil
         /\ data' = EmptyMap
         /\ initialSize' = initialSize
         /\ ClearOp(data') = data'
         /\ data = EmptyMap => data' = data
         /\ last.op = "Clear" => data' = data /\ last'.removed = {}
    ]_vars

\* a Clear ran on an empty cache that was built with a size hint
C12_Witness ==
  /\ last.op = "Clear"
  /\ last.removed = {}
  /\ data = EmptyMap
  /\ initialSize = SizeHint

\* C13: concurrent Set/Get safety.  When every goroutine sets a distinct key
\* with ttl 0 and then gets that key on the same cache, then in every
\* interleaving every Set succeeds and every goroutine's Get returns exactly
\* the value that goroutine set.
C13_ConcurrentSetAndGet ==
  \A t \in Threads :
    /\ job[t].at \in {"get", "done"}
       => /\ (IF ver = 1 THEN job[t].setOk ELSE job[t].setErr = ErrNil)
          /\ job[t].key \in DOMAIN data
          /\ data[job[t].key].value = job[t].value
    /\ job[t].at = "done"
       => job[t].getErr = ErrNil /\ job[t].got = job[t].value

\* all goroutines are done, they stored different values, and time passed
\* while they ran
C13_Witness ==
  /\ \A t \in Threads : job[t].at = "done"
  /\ \E t, u \in Threads : job[t].value # job[u].value
  /\ last.op = "Get"
  /\ now > InitTime

\* C14: the value and the error of a read agree.  A Get that returns an error
\* (ErrKeyNotFound or ErrExpired) returns the zero value of T, and Has returns
\* false exactly when it returns an error.
C14_ValueAndErrorAgree ==
  /\ last.op = "Get"
     => /\ last.err \in {ErrNil, ErrKeyNotFound, ErrExpired}
        /\ last.err # ErrNil => last.val = none
  /\ last.op \in {"Has", "DelHas"}
     => /\ last.err \in {ErrNil, ErrKeyNotFound, ErrExpired}
        /\ last.ok <=> last.err = ErrNil

\* a Get returned ErrExpired and the zero value for a key whose stored value
\* was not the zero value
C14_Witness ==
  /\ last.op = "Get" /\ last.err = ErrExpired
  /\ last.val = none
  /\ last.key \in DOMAIN written /\ written[last.key] # none

\* C15: background sweeper.  A cache built with WithCleanup(interval) runs one
\* background task that forever alternates Cleanup and a sleep of the
\* interval; under fair scheduling every entry that becomes expired is
\* therefore eventually removed from the store (or replaced by a Set), also
\* when no Get, Has, Del or Set touches its key again.
C15_SweeperRemovesExpired ==
  /\ [][ /\ sweeper'.at \in {"cleanup", "sleep"}
         /\ sweeper'.ttl = sweeper.ttl
         /\ (sweeper.at = "cleanup" /\ sweeper'.at = "sleep")
            => /\ data' = CleanupOp(ver, data, now)
               /\ sweeper'.until = Min(now + sweeper.ttl, MaxTime)
         /\ (sweeper.at = "sleep" /\ sweeper'.at = "cleanup")
            => data' = data /\ now >= sweeper.until
       ]_vars
  /\ []<>(sweeper.at = "cleanup")
  /\ []<>(sweeper.at = "sleep")
  /\ \A k \in Keys :
       (k \in DOMAIN data /\ Elapsed(data[k], now))
         ~> (k \notin DOMAIN data \/ ~Elapsed(data[k], now))

\* a Cleanup of the sweeper, after at least one sleep, removed an entry
C15_Witness ==
  /\ last.op = "Cleanup" /\ last.thread = "sweeper"
  /\ last.removed # {}
  /\ sweeper.at = "sleep"
  /\ sweeper.until > InitTime + sweeper.ttl

\* C16: atomicity of locked sections.  At most one goroutine (foreground
\* caller or sweeper) is inside a locked section of Set, Get, Has, Clear,
\* Cleanup, DelPrefix or either step of Del at any time, so no operation
\* observes a partially written entry or a store that another operation is
\* halfway through changing: inside its section a goroutine finds the store
\* as it was when it took the lock, apart from the keys its own loop deleted.
C16_LockedSectionsAtomic ==
  /\ Cardinality(Inside) <= 1
  /\ \A t \in Inside :
       /\ mutex = [w |-> t, r |-> {}]
       /\ DOMAIN data \subseteq DOMAIN sect[t].seen
       /\ \A k \in DOMAIN data : data[k] = sect[t].seen[k]
       /\ sect[t].todo \subseteq DOMAIN data
       /\ ~Ranges(sect[t].op) => data = sect[t].seen
  /\ Inside = {} => mutex = Unlocked

\* a Cleanup loop has deleted one key and has another still to visit, while
\* the other goroutine is between the two locked sections of Del
C16_Witness ==
  \E t, u \in Threads :
    /\ t # u
    /\ sect[t] # NoSection /\ sect[t].op = "Cleanup"
    /\ sect[t].todo # {}
    /\ data # sect[t].seen
    /\ pc[u] # NoKey

\* the entry's expiration instant is set and is not after t
ReachedExpiry(item, t) == item.expiration # ZeroTime /\ item.expiration <= t

\* An accepted Set with ttl > 0 stores expiresAt = now + ttl, and Get, Has
\* (also the check inside Del), Set and Cleanup treat an entry with an
\* expiration instant as expired exactly when Gone(entry, now) holds.
BoundaryTreatment(Gone(_, _)) ==
  LET k == last'.key IN
  /\ (last'.op = "Set" /\ Accepted(last') /\ last'.ttl > 0)
     => data'[k].expiration = now + last'.ttl
  /\ (last'.op \in {"Get", "Has", "DelHas"} /\ k \in DOMAIN data
        /\ data[k].expiration # ZeroTime)
     => IF Gone(data[k], now) THEN last'.err = ErrExpired /\ k \notin DOMAIN data'
                              ELSE last'.err = ErrNil /\ data' = data
  /\ (last'.op = "Set" /\ k \in DOMAIN data /\ data[k].expiration # ZeroTime)
     => (Accepted(last') <=> Gone(data[k], now))
  /\ last'.op = "Cleanup"
     => \A e \in DOMAIN data :
          data[e].expiration # ZeroTime
          => (e \notin DOMAIN data' <=> Gone(data[e], now))

\* C17 as stated: an entry stored at time t with ttl > 0 gets
\* expiresAt = t + ttl and is treated as expired by Get, Has, Set and Cleanup
\* at every now with expiresAt <= now (now = expiresAt included), and as live
\* at every now < expiresAt.
C17_ExpiredAtOrAfterExpiresAt == [][BoundaryTreatment(ReachedExpiry)]_vars

\* C17 (amended): an entry stored at time t with ttl > 0 gets
\* expiresAt = t + ttl and is treated as expired by Get, Has, Set and Cleanup
\* at every now with expiresAt < now, and as live at every now <= expiresAt
\* (now = expiresAt included).
C17_ExpiredAfterExpiresAt == [][BoundaryTreatment(Elapsed)]_vars

\* a Get succeeded on an entry at the very instant of its expiration
C17_Witness ==
  /\ last.op = "Get" /\ last.err = ErrNil
  /\ last.key \in DOMAIN data
  /\ data[last.key].expiration = now

\* C18: a rejected Set changes nothing.  When Set(k, v2, ttl2) is rejected
\* because k is live, the whole store is unchanged, the expiration instant of
\* the existing entry included: a rejected Set never refreshes or extends the
\* TTL of the live entry.
C18_RejectedSetChangesNothing ==
  [][ (last'.op = "Set" /\ Rejected(last'))
      => /\ Live(data, last'.key, now)
         /\ data' = data
         /\ data'[last'.key].expiration = data[last'.key].expiration
         /\ initialSize' = initialSize
    ]_vars

\* a Set with a TTL was rejected on a live entry whose expiration instant is
\* not the one the rejected call would have stored
C18_Witness ==
  /\ last.op = "Set" /\ Rejected(last)
  /\ last.ttl > 0
  /\ last.key \in DOMAIN data
  /\ data[last.key].expiration # now + last.ttl
  /\ data[last.key].value # last.arg

\* C19: benign Del race.  When a concurrent Cleanup or Clear removes key k
\* between the presence check of Del(k) and its deletion step, Del still
\* returns success, and the resulting store is the one of the run in which
\* Del deleted k at its check and the Cleanup / Clear calls ran afterwards: k
\* is absent and no other key is affected.
C19_BenignDelRace ==
  [][ \A t \in Threads :
        (pc[t] # NoKey /\ pc'[t] = NoKey)
        => /\ last'.op = "Del" /\ last'.key = pc[t] /\ last'.err = ErrNil
           /\ pc[t] \notin DOMAIN data'
           /\ data' = alt'
           /\ pc[t] \notin DOMAIN data => data' = data
    ]_vars

\* a Del returned success although its key was gone at the deletion step,
\* and another key outlived the race
C19_Witness ==
  /\ last.op = "Del" /\ last.err = ErrNil
  /\ ~last.had
  /\ data # EmptyMap

\* C20: a Del(k) that returns success removes only the entry its presence
\* check observed.  The call recorded in last is the most recent one, so when a
\* thread's delete of k is pending and last is an accepted Set(k), that Set
\* succeeded after the thread's presence check; the delete step must then
\* leave the entry that Set stored in place.
C20_DelRemovesOnlyObservedEntry ==
  [][ \A t \in Threads :
        ( /\ pc[t] # NoKey
          /\ last.op = "Set" /\ Accepted(last) /\ last.key = pc[t]
          /\ last'.op = "Del" /\ last'.thread = t /\ last'.err = ErrNil )
        => /\ pc[t] \in DOMAIN data'
           /\ data'[pc[t]] = data[pc[t]]
    ]_vars

\* C21: Del reports success only for a key it found and removed.  When the
\* call that returned last is another goroutine's successful Del(k) and this
\* goroutine's Del(k) is between its presence check and its delete, both saw
\* the entry and no Set(k) came in between; of the two only one may return no
\* error, so the Del that finishes now returns ErrKeyNotFound.
C21_OneDelSucceeds ==
  [][ \A t \in Threads :
        ( /\ pc[t] # NoKey
          /\ last.op = "Del" /\ last.err = ErrNil
          /\ last.key = pc[t] /\ last.thread # t
          /\ last'.op = "Del" /\ last'.thread = t )
        => last'.err = ErrKeyNotFound
    ]_vars

\* the goroutine's Set has returned, and it was accepted
Won(t) ==
  /\ job[t].at # "set"
  /\ IF ver = 1 THEN job[t].setOk ELSE job[t].setErr = ErrNil

\* C22 as stated: after the goroutines have called Set on the same key, the
\* value stored under the key is the one written by the call that took the
\* lock last.
C22_LastWriterWins ==
  [][ \A t \in Threads :
        (job[t].at = "set" /\ job'[t].at = "get"
           /\ \A u \in Threads \ {t} : job[u].at # "set")
        => /\ job[t].key \in DOMAIN data'
           /\ data'[job[t].key].value = job[t].value
    ]_vars

\* C22 (amended): operations on the same key are linearized by the lock and
\* the last accepted writer wins: a Set that takes the lock while the key
\* holds a live entry is rejected and leaves the store as it is, a Set that
\* finds the key absent or expired stores its value, so after the goroutines
\* have called Set on the same key the value stored under it is the one of
\* the accepted call that took the lock last.
C22_LastAcceptedWriterWins ==
  [][ /\ \A t \in Threads :
           (job[t].at = "set" /\ job'[t].at = "get")
           => IF Live(data, job[t].key, now)
              THEN ~Won(t)' /\ data' = data
              ELSE /\ Won(t)'
                   /\ data'[job[t].key].value = job[t].value
                   /\ written'[job[t].key] = job[t].value
      /\ \A k \in DOMAIN data' : data'[k].value = written'[k]
    ]_vars

\* every goroutine has called Set, the one that took the lock last was
\* rejected, and the stored value is not the one it passed
C22_Witness ==
  /\ \A t \in Threads : job[t].at # "set"
  /\ last.op = "Set" /\ Rejected(last)
  /\ last.key \in DOMAIN data
  /\ data[last.key].value # last.arg

\* C23: compute-once under contention.  Among the goroutines that call Set
\* on the same absent key with ttl 0 (no Del, DelPrefix or Clear), exactly one
\* Set succeeds, and every Get that succeeds afterwards, on any goroutine,
\* returns the value of that one call.
C23_ComputeOnce ==
  (\A t \in Threads : job[t].ttl = 0)
  => /\ Cardinality({t \in Threads : Won(t)}) <= 1
     /\ (\E t \in Threads : job[t].at # "set")
        => Cardinality({t \in Threads : Won(t)}) = 1
     /\ \A t \in Threads :
          (job[t].at = "done" /\ job[t].getErr = ErrNil)
          => \E w \in Threads : Won(w) /\ job[t].got = job[w].value

\* all goroutines are done, and one whose Set was rejected got the value of
\* the other, which is not the value it passed itself
C23_Witness ==
  /\ \A t \in Threads : job[t].at = "done" /\ job[t].ttl = 0
  /\ \E t, w \in Threads :
       /\ ~Won(t) /\ Won(w)
       /\ job[t].getErr = ErrNil
       /\ job[t].got = job[w].value
       /\ job[t].got # job[t].value

\* C24: Set followed by Get is not atomic.  A Get(k) issued by the goroutine
\* that just completed a successful Set(k, v, ttl) fails only if, between the
\* two calls, the entry expired or another goroutine's Del, DelPrefix, Clear
\* or Cleanup removed it: the accepted Set leaves a live entry; until the Get,
\* the entry leaves the store or changes only when it has expired or by such
\* a call of another goroutine; and the Get fails only on an absent or
\* expired entry.  (That a concurrent Del makes the Get fail with
\* ErrKeyNotFound is the reachable state C24_Witness.)
C24_SetThenGetNotAtomic ==
  [][ \A t \in Threads :
        job[t] # NoJob =>
          LET k == job[t].key IN
          /\ (job[t].at = "set" /\ job'[t].at = "get" /\ Won(t)')
             => /\ Live(data', k, now)
                /\ data'[k].value = job[t].value
          /\ (job[t].at = "get" /\ job'[t].at = "get" /\ Won(t) /\ Live(data, k, now)
                /\ (k \notin DOMAIN data' \/ data'[k] # data[k]))
             => /\ last'.op \in {"Del", "DelPrefix", "DelPrefixAltMatch", "Clear"}
                /\ last'.thread # t
                /\ k \notin DOMAIN data'
          /\ (job[t].at = "get" /\ job'[t].at = "done" /\ Won(t))
             => /\ job'[t].getErr = ErrNil <=> Live(data, k, now)
                /\ job'[t].getErr = ErrExpired <=> (k \in DOMAIN data /\ Elapsed(data[k], now))
                /\ job'[t].getErr = ErrKeyNotFound <=> k \notin DOMAIN data
    ]_vars

\* the Get that follows an accepted Set with ttl 0 failed with ErrKeyNotFound,
\* and the call that returned just before it was another goroutine's
\* successful Del of the key
C24_Witness ==
  \E t \in Threads :
    /\ job[t] # NoJob /\ job[t].at = "done"
    /\ Won(t) /\ job[t].ttl = 0
    /\ job[t].getErr = ErrKeyNotFound
    /\ job[t].prev = [op |-> "Del", key |-> job[t].key, err |-> ErrNil]

\* C25: every access to the entry table is made under the lock.  From
\* construction on and for every option list, a step that assigns the table
\* or the size hint is taken by the goroutine that holds the mutex for
\* writing, unless no other goroutine can reach the cache yet (NewCache has
\* not returned and no sweeper is running).
C25_TableAccessLocked ==
  [][(data' # data \/ initialSize' # initialSize \/ (opts' # opts /\ Head(opts) = "WithSize"))
       => IF opts' # opts
          THEN sweeper = NoSweeper
          ELSE mutex.w # NoThread /\ sect[mutex.w] # NoSection /\ mutex.r = {}]_vars

\* C26: no operation can stall the lock.  Every locked section releases the
\* mutex when it ends, and no goroutine waits for the mutex while it holds
\* it (Del waits again only after its Has has unlocked, the sweeper sleeps
\* outside the lock), so the mutex is held only by a goroutine that is
\* running a section, no deadlock is reachable, and under fair scheduling
\* every started operation completes and the sweeper goes on for ever.
C26_NoStall ==
  /\ [](/\ mutex.r = {}
        /\ \A g \in Goroutines : sect[g] # NoSection <=> mutex.w = g
        /\ \A t \in Threads : job[t] = [at |-> "wait"] => mutex.w # t
        /\ \A t \in Threads : job[t] = [at |-> "in"] <=> sect[t] # NoSection
        /\ sweeper.at = "sleep" => mutex.w # Sweeper)
  /\ \A t \in Threads : (job[t] # NoJob) ~> (job[t] = NoJob)
  /\ []<>(sweeper.at = "sleep")
  /\ []<>(sweeper.at = "cleanup")

\* a goroutine is inside Del, waiting for the mutex a second time, the other
\* goroutine waits too, and the sweeper is half way through its Cleanup
C26_Witness ==
  /\ \E t, u \in Threads :
       /\ t # u
       /\ job[t] = [at |-> "wait"] /\ pc[t] # NoKey
       /\ job[u] = [at |-> "wait"]
  /\ sect[Sweeper] # NoSection
  /\ sect[Sweeper].todo # {}
  /\ sect[Sweeper].seen # data

\* C27: Cleanup is thread-safe against writers.  In every interleaving of
\* Cleanup (the one that deletes in place and the one that copies the live
\* entries to a new map and swaps it in) with concurrent Set calls and the
\* other methods, no step of a Cleanup loses or changes an entry that is
\* stored and still live, and when the Cleanup has completed a Get returns
\* the value of every such entry.
C27_CleanupKeepsLiveEntries ==
  [][ \A t \in Threads :
        (sect[t] # NoSection /\ sect[t].op = "Cleanup" /\ sect'[t] # sect[t])
        => \A k \in DOMAIN data :
             Live(data, k, now)
             => /\ k \in DOMAIN data'
                /\ data'[k] = data[k]
                /\ sect'[t] = NoSection
                   => /\ GetOp(data', k, now).err = ErrNil
                      /\ GetOp(data', k, now).val = data[k].value
    ]_vars

\* the copying Cleanup is at the end of its loop, about to swap the new map
\* in: it has kept a live entry and dropped an expired one, while the other
\* goroutine is between the two locked sections of Del
C27_Witness ==
  \E t, u \in Threads :
    /\ ver = 1
    /\ sect[t] # NoSection /\ sect[t].op = "Cleanup"
    /\ sect[t].todo = {}
    /\ sect[t].fresh # EmptyMap
    /\ sect[t].fresh # data
    /\ pc[u] # NoKey

\* C28: lazy expiration.  The passage of time alone never changes the store;
\* an expired entry stays in the store until a Get, Has or Del of its own
\* key, a successful Set of its own key, a matching DelPrefix, a Clear or a
\* Cleanup removes or replaces it, and no other transition removes a key or
\* changes an entry.
C28_LazyExpiration ==
  [][ /\ last'.op = "Tick" => data' = data /\ now' > now
      /\ \A k \in DOMAIN data :
           (k \notin DOMAIN data' \/ data'[k] # data[k])
           => \/ last'.op \in {"Get", "Has", "Del", "DelHas"} /\ last'.key = k
              \/ last'.op = "Set" /\ last'.key = k /\ Accepted(last')
              \/ last'.op \in {"DelPrefix", "DelPrefixAltMatch"} /\ IsLeading(last'.key, k)
              \/ last'.op \in {"Clear", "Cleanup"}
    ]_vars

\* the clock advanced past the expiration of an entry, and the entry is
\* still in the store
C28_Witness ==
  /\ last.op = "Tick"
  /\ \E k \in DOMAIN data : data[k].expiration # ZeroTime /\ data[k].expiration = now - 1

\* C29: the two engine versions are observationally equivalent.  For every
\* sequence of Set, Get, Has, Del, Clear, Cleanup and clock ticks, Set returns
\* true in version 1 exactly when it returns no error in version 2, all other
\* results coincide, and so do the key/value/expiration contents of the two
\* maps.
C29_VersionsEquivalent ==
  [][ /\ data' = alt'
      /\ last'.op = "Set" => (last'.ok <=> last'.err = ErrNil)
      /\ last'.op = "Get"
         => /\ GetOp(data, last'.key, now).val = GetOp(alt, last'.key, now).val
            /\ GetOp(data, last'.key, now).err = last'.err
      /\ last'.op \in {"Has", "DelHas", "Del"}
         => (last'.ok <=> last'.err = ErrNil)
      /\ last'.op = "Cleanup" => CleanupOp(1, data, now) = CleanupOp(2, alt, now)
    ]_vars

\* a Cleanup removed an entry of the two maps and kept another
C29_Witness ==
  /\ last.op = "Cleanup"
  /\ last.removed # {}
  /\ alt # EmptyMap
  /\ alt = data

\* C30: DelPrefix and DelPrefixAltMatch are equivalent.  For every store and
\* every prefix (the empty prefix, a prefix equal to a key and a prefix longer
\* than a key included) both remove the same set of keys and return the same
\* count.
C30_DelPrefixAltMatchEquivalent ==
  \A p \in Prefixes :
    /\ DelPrefixOp(data, p).data = DelPrefixAltMatchOp(data, p).data
    /\ DelPrefixOp(data, p).deleted = DelPrefixAltMatchOp(data, p).deleted
    /\ \A k \in Keys : HasPrefix(k, p) <=> AltMatch(k, p)

\* DelPrefixAltMatch with a prefix that is one of the keys removed that key
\* and left the other, which holds the prefix further in, in the store
C30_Witness ==
  /\ last.op = "DelPrefixAltMatch"
  /\ last.removed = {last.key}
  /\ \E k \in DOMAIN data : Contains(k, last.key)

\* C31: no resurrection.  A Get(k) or Has(k) (also the check inside Del(k))
\* that returns an error leaves k unreadable; while k is unreadable every read
\* of it returns an error; and k goes from unreadable to readable only in a
\* step that is an accepted Set(k): never in a Clear, Cleanup, Del, DelPrefix,
\* a read or a tick of the clock.
C31_NoResurrection ==
  [][\A k \in Keys :
       /\ (IsRead(k) /\ last'.err # ErrNil) => ~Live(data', k, now')
       /\ (IsRead(k) /\ ~Live(data, k, now)) => last'.err # ErrNil
       /\ (~Live(data, k, now) /\ Live(data', k, now'))
            => last'.op = "Set" /\ last'.key = k /\ Accepted(last')
    ]_vars

\* a key that was stored and read as expired is, after the clock went on
\* and with no Set of it accepted since, read again and still not found
C31_Witness ==
  /\ last.op \in {"Get", "Has"}
  /\ last.err = ErrKeyNotFound
  /\ last.key \in DOMAIN written
  /\ reports[last.key] = 1
  /\ now = MaxTime
  /\ DOMAIN data # {}

\* C32: key isolation.  A step that is Set, Get, Has or Del (its check or its
\* delete) on key k leaves every other key as it was: no key other than k is
\* added or removed, and the entry of every other key keeps its value and its
\* expiration, whether the call succeeds, is rejected, finds nothing or evicts
\* an expired entry.
C32_KeyIsolation ==
  [][last'.op \in {"Set", "Get", "Has", "Del", "DelHas"}
       => \A k \in Keys \ {last'.key} :
            /\ k \in DOMAIN data' <=> k \in DOMAIN data
            /\ k \in DOMAIN data => data'[k] = data[k]
    ]_vars

\* a read evicted the expired entry of its key while the other key was stored
C32_Witness ==
  /\ last.op \in {"Get", "Has", "Del"}
  /\ last.err = ErrExpired
  /\ last.removed = {last.key}
  /\ \E k \in DOMAIN data : k # last.key

\* C33: reads are read-only except for eviction.  A Get(k) or Has(k) leaves
\* the whole store as it was, values and expiration instants included, unless
\* k is stored and its entry is expired; then the only change is that k is
\* removed.  So the read of a live entry does not extend its lifetime.
C33_ReadsOnlyEvict ==
  [][last'.op \in {"Get", "Has"}
       => LET k == last'.key IN
          IF k \in DOMAIN data /\ Elapsed(data[k], now)
          THEN data' = Remove(data, k)
          ELSE data' = data
    ]_vars

\* a Get returned the value of an entry at the instant of its expiration, and
\* the entry still has that expiration
C33_Witness ==
  /\ last.op = "Get"
  /\ last.err = ErrNil
  /\ last.key \in DOMAIN data
  /\ data[last.key].expiration = now

\* C34: a negative ttl is treated like ttl 0.  On a cache whose Sets all have
\* a negative ttl, a Set on an absent key is accepted and stores the value
\* without an expiration; every stored entry is without expiration and is not
\* expired at any clock value; a tick of the clock and a Cleanup leave the
\* store as it is; and a Get or Has of a stored key succeeds.
C34_NegativeTTLNeverExpires ==
  /\ [](\A k \in DOMAIN data : data[k].expiration = ZeroTime /\ Live(data, k, now))
  /\ [][LET k == last'.key IN
        /\ (last'.op = "Set" /\ k \notin DOMAIN data)
             => /\ Accepted(last')
                /\ last'.ttl < 0
                /\ data' = Put(data, k, [value |-> last'.arg, expiration |-> ZeroTime])
        /\ last'.op \in {"Cleanup", "Tick"} => data' = data
        /\ (last'.op \in {"Get", "Has"} /\ k \in DOMAIN data)
             => last'.err = ErrNil /\ data' = data
       ]_vars

\* at the last clock value a Cleanup has run and both keys are still stored
C34_Witness ==
  /\ last.op = "Cleanup"
  /\ now = MaxTime
  /\ DOMAIN data = Keys

\* the keys of d that p is a leading substring of
Matching(d, p) == {k \in DOMAIN d : IsLeading(p, k)}

\* C35: DelPrefix ignores expiry.  DelPrefix(p) removes every stored key that
\* p is a leading substring of, the entries that are expired and not yet
\* evicted included, and no other key; the number it returns is the decrease
\* of the number of stored keys, which is never below the number of matching
\* keys for which a Get would have succeeded (and can be above it).
C35_DelPrefixIgnoresExpiry ==
  last.op = "DelPrefix"
    => /\ DOMAIN data = (DOMAIN alt) \ Matching(alt, last.key)
       /\ \A k \in DOMAIN data : data[k] = alt[k]
       /\ last.val = Cardinality(DOMAIN alt) - Cardinality(DOMAIN data)
       /\ last.val = Cardinality(Matching(alt, last.key))
       /\ last.val >= Cardinality({k \in Matching(alt, last.key) : Live(alt, k, now)})

\* a DelPrefix removed two keys, one of them expired and one live
C35_Witness ==
  /\ last.op = "DelPrefix"
  /\ last.val = 2
  /\ Cardinality({k \in Matching(alt, last.key) : Live(alt, k, now)}) = 1

====
